---- MODULE Spec2Model ----
(***************************************************************************)
(* Verification model of the personal-assistant record model:              *)
(* contact fields, Record, AddressBook, Note, Notebook and the command     *)
(* functions built on them.                                                *)
(*                                                                         *)
(* Conventions.                                                            *)
(*   - A Python str is a sequence of one-character strings, so that        *)
(*     strip(), lower() and the `in` substring test are computed.          *)
(*   - An optional value (None or a value) is <<>> or <<v>>.               *)
(*   - A dict is a sequence of [key, ...] entries with pairwise distinct   *)
(*     keys, in insertion order (Python dict iteration order).             *)
(*   - A datetime.date is a record [y, m, d].                              *)
(***************************************************************************)
EXTENDS Integers, Sequences, FiniteSets, TLC

VARIABLES
    data,    \* AddressBook.data: name -> Record
    notes,   \* Notebook.notes: title -> Note
    sysdate, \* datetime.today().date()
    clock,   \* datetime.now()
    out,     \* the last call: its operation, arguments and returned value
    proc     \* the process running main(): its position, the two persisted
             \* documents and its standard input

vars == <<data, notes, sysdate, clock, out, proc>>

\* no process: the operations are called directly
NoProcess == [pc |-> "none"]

(***************************************************************************)
(* Optional values                                                         *)
(***************************************************************************)
None == <<>>

Some(v) == <<v>>

(***************************************************************************)
(* Python str operations                                                   *)
(***************************************************************************)
\* the upper-case and lower-case ASCII letters, in alphabet order
UpperLetters ==
    <<"A", "B", "C", "D", "E", "F", "G", "H", "I", "J", "K", "L", "M",
      "N", "O", "P", "Q", "R", "S", "T", "U", "V", "W", "X", "Y", "Z">>

LowerLetters ==
    <<"a", "b", "c", "d", "e", "f", "g", "h", "i", "j", "k", "l", "m",
      "n", "o", "p", "q", "r", "s", "t", "u", "v", "w", "x", "y", "z">>

\* str.lower() on the upper-case letters
LowerMap ==
    [c \in {UpperLetters[i] : i \in 1..26} |->
        LowerLetters[CHOOSE i \in 1..26 : UpperLetters[i] = c]]

\* str.lower() on one character: an upper-case letter becomes its lower-case
\* letter, any other character is kept
LowerChar(c) == IF c \in DOMAIN LowerMap THEN LowerMap[c] ELSE c

\* str.lower()
Lower(s) == [i \in 1..Len(s) |-> LowerChar(s[i])]

\* Python `sub in s` for strings
Contains(sub, s) ==
    \E i \in 0..(Len(s) - Len(sub)) :
        \A j \in 1..Len(sub) : s[i + j] = sub[j]

\* str.strip(): drop leading and trailing blanks
Strip(s) ==
    LET nb == {i \in 1..Len(s) : s[i] # " "}
    IN  IF nb = {} THEN <<>>
        ELSE LET lo == CHOOSE i \in nb : \A j \in nb : i <= j
                 hi == CHOOSE i \in nb : \A j \in nb : j <= i
             IN  SubSeq(s, lo, hi)

\* " ".join(parts)
JoinSpace(parts) ==
    LET RECURSIVE J(_)
        J(k) == IF k = 0 THEN <<>>
                ELSE IF k = 1 THEN parts[1]
                ELSE J(k - 1) \o <<" ">> \o parts[k]
    IN  J(Len(parts))

\* str.isdigit(): non-empty and every character a digit
IsDigit(s) ==
    /\ Len(s) > 0
    /\ \A i \in 1..Len(s) : s[i] \in {"0", "1", "2", "3", "4", "5", "6", "7", "8", "9"}

(***************************************************************************)
(* datetime.date                                                           *)
(***************************************************************************)
Date(y, m, d) == [y |-> y, m |-> m, d |-> d]

IsLeap(y) == (y % 4 = 0) /\ ((y % 100 # 0) \/ (y % 400 = 0))

DaysInMonth(y, m) ==
    IF m = 2 THEN (IF IsLeap(y) THEN 29 ELSE 28)
    ELSE IF m \in {4, 6, 9, 11} THEN 30 ELSE 31

\* the (year, month, day) triples date() accepts
ValidDate(y, m, d) ==
    /\ y \in 1..9999
    /\ m \in 1..12
    /\ d \in 1..DaysInMonth(y, m)

\* days in the year before the first of month m
DaysBeforeMonth(y, m) ==
    LET RECURSIVE B(_)
        B(k) == IF k = 0 THEN 0 ELSE DaysInMonth(y, k) + B(k - 1)
    IN  B(m - 1)

\* days before January 1st of year y
DaysBeforeYear(y) ==
    LET p == y - 1
    IN  p * 365 + (p \div 4) - (p \div 100) + (p \div 400)

\* date.toordinal()
ToOrdinal(dt) == DaysBeforeYear(dt.y) + DaysBeforeMonth(dt.y, dt.m) + dt.d

\* (a - b).days
DaysBetween(a, b) == ToOrdinal(a) - ToOrdinal(b)

\* a < b on dates: comparison of (year, month, day)
DateLess(a, b) ==
    \/ a.y < b.y
    \/ a.y = b.y /\ a.m < b.m
    \/ a.y = b.y /\ a.m = b.m /\ a.d < b.d

\* date.replace(year=y): None stands for the ValueError it raises
ReplaceYear(dt, y) ==
    IF ValidDate(y, dt.m, dt.d) THEN Some(Date(y, dt.m, dt.d)) ELSE None

(***************************************************************************)
(* Python dict: a sequence of [key, val] entries, distinct keys, in        *)
(* insertion order                                                         *)
(***************************************************************************)
Entry(k, v) == [key |-> k, val |-> v]

Keys(dict) == {dict[i].key : i \in 1..Len(dict)}

\* key in dict
DictHas(dict, k) == \E i \in 1..Len(dict) : dict[i].key = k

\* position of key k (0 when absent)
DictIndex(dict, k) ==
    IF DictHas(dict, k) THEN CHOOSE i \in 1..Len(dict) : dict[i].key = k ELSE 0

\* dict.get(k): None when absent
DictGet(dict, k) ==
    IF DictHas(dict, k) THEN Some(dict[DictIndex(dict, k)].val) ELSE None

\* dict[k] = v: an existing key keeps its position, a new key goes last
DictSet(dict, k, v) ==
    IF DictHas(dict, k)
    THEN [dict EXCEPT ![DictIndex(dict, k)] = Entry(k, v)]
    ELSE Append(dict, Entry(k, v))

\* del dict[k]
DictDel(dict, k) ==
    LET i == DictIndex(dict, k)
    IN  SubSeq(dict, 1, i - 1) \o SubSeq(dict, i + 1, Len(dict))

(***************************************************************************)
(* Results of calls that may raise                                         *)
(***************************************************************************)
Ok(v) == [ok |-> TRUE, v |-> v]

Raise(kind, text) == [ok |-> FALSE, exc |-> kind, msg |-> text]

(***************************************************************************)
(* Decimal text                                                            *)
(***************************************************************************)
Digits == <<"0", "1", "2", "3", "4", "5", "6", "7", "8", "9">>

DigitChars == {Digits[i] : i \in 1..10}

DigitVal(c) == (CHOOSE k \in 1..10 : Digits[k] = c) - 1

\* value of a string of decimal digits
ParseInt(s) ==
    LET RECURSIVE P(_)
        P(k) == IF k = 0 THEN 0 ELSE 10 * P(k - 1) + DigitVal(s[k])
    IN  P(Len(s))

\* n written with exactly w decimal digits (zero padded)
Pad(n, w) ==
    LET RECURSIVE F(_, _)
        F(v, k) == IF k = 0 THEN <<>> ELSE F(v \div 10, k - 1) \o <<Digits[(v % 10) + 1]>>
    IN  F(n, w)

\* date.strftime("%d.%m.%Y") (years of four digits)
FormatDate(dt) == Pad(dt.d, 2) \o <<".">> \o Pad(dt.m, 2) \o <<".">> \o Pad(dt.y, 4)

\* s.split(".")
SplitDots(s) ==
    LET RECURSIVE S(_, _, _)
        S(k, cur, acc) ==
            IF k > Len(s) THEN Append(acc, cur)
            ELSE IF s[k] = "." THEN S(k + 1, <<>>, Append(acc, cur))
            ELSE S(k + 1, Append(cur, s[k]), acc)
    IN  S(1, <<>>, <<>>)

AllDigits(s) == \A i \in 1..Len(s) : s[i] \in DigitChars

\* date(y, m, d) inside strptime: None stands for the ValueError of a day
\* that is not in the calendar
DateOrNone(y, m, d) == IF ValidDate(y, m, d) THEN Some(Date(y, m, d)) ELSE None

\* strptime on the fields between the dots: %d and %m take one or two digits,
\* %Y takes four
ParseFields(parts) ==
    IF /\ Len(parts) = 3
       /\ Len(parts[1]) \in {1, 2} /\ AllDigits(parts[1])
       /\ Len(parts[2]) \in {1, 2} /\ AllDigits(parts[2])
       /\ Len(parts[3]) = 4 /\ AllDigits(parts[3])
    THEN DateOrNone(ParseInt(parts[3]), ParseInt(parts[2]), ParseInt(parts[1]))
    ELSE None

\* datetime.strptime(v, "%d.%m.%Y").date(): None stands for the ValueError
ParseDate(v) == ParseFields(SplitDots(v))

(***************************************************************************)
(* contacts/fields.py                                                      *)
(***************************************************************************)
\* Name(value); value is an optional string (None when the caller has none)
Name(value) ==
    IF value = None \/ value = Some(<<>>)
    THEN Raise("ValueError", "Name cannot be empty")
    ELSE Ok(value[1])

\* the test of Phone.__init__ and Phone.set on the stripped value v
NonEmptyPhone(v) ==
    IF v = <<>> THEN Raise("ValueError", "Phone cannot be empty") ELSE Ok(v)

\* Phone(value)
Phone(value) == NonEmptyPhone(Strip(value))

\* Phone.set without the test for an empty value
PhoneSet_unchecked(new_value) == Ok(Strip(new_value))

\* Phone.set(new_value): the value the entry takes
PhoneSet(new_value) == NonEmptyPhone(Strip(new_value))

\* Birthday.__init__ after strptime: `except ValueError: raise ValueError(...)`
ParsedBirthday(parsed) ==
    IF parsed = None
    THEN Raise("ValueError", "Birthday must be in DD.MM.YYYY format")
    ELSE Ok(parsed[1])

\* Birthday(value) for a string value
Birthday(value) == ParsedBirthday(ParseDate(Strip(value)))

\* Email(value)
Email(value) == Strip(value)

\* Address(value)
Address(value) == Strip(value)

(***************************************************************************)
(* contacts/record.py                                                      *)
(***************************************************************************)
\* the attributes Record.__init__ sets, unless Name(name) raised
NewRecord(res) ==
    IF res.ok
    THEN Ok([name |-> res.v, phones |-> <<>>, birthday |-> None,
             email |-> None, address |-> None])
    ELSE res

\* Record.__init__(name)
Record(name) == NewRecord(Name(name))

\* self.phones.append(...) with the Phone that was built, unless building it raised
AppendPhone(rec, res) ==
    IF res.ok THEN Ok([rec EXCEPT !.phones = Append(@, res.v)]) ELSE res

\* Record.add_phone(phone)
Record_add_phone(rec, phone) == AppendPhone(rec, Phone(phone))

\* Record.find_phone(phone): position of the first entry equal to phone, 0 for None
Record_find_phone(rec, phone) ==
    IF \E i \in 1..Len(rec.phones) : rec.phones[i] = phone
    THEN CHOOSE i \in 1..Len(rec.phones) :
            /\ rec.phones[i] = phone
            /\ \A j \in 1..(i - 1) : rec.phones[j] # phone
    ELSE 0

\* self.phones.remove(...) of the entry at position i; i = 0 when find_phone
\* returned None
RemovePhoneAt(rec, i) ==
    IF i # 0
    THEN Ok([rec EXCEPT !.phones = SubSeq(@, 1, i - 1) \o SubSeq(@, i + 1, Len(@))])
    ELSE Raise("ValueError", "Phone number not found")

\* Record.remove_phone(phone)
Record_remove_phone(rec, phone) == RemovePhoneAt(rec, Record_find_phone(rec, phone))

\* the entry at position i is dropped and the value that Phone.set built is
\* appended; i = 0 when find_phone returned None
ReplacePhoneByAppend(rec, i, res) ==
    IF i = 0 THEN Raise("ValueError", "Phone number not found")
    ELSE IF res.ok
    THEN Ok([rec EXCEPT !.phones =
                Append(SubSeq(@, 1, i - 1) \o SubSeq(@, i + 1, Len(@)), res.v)])
    ELSE res

\* Record.edit_phone that drops the old entry and appends the new value
Record_edit_phone_append(rec, old_phone, new_phone) ==
    ReplacePhoneByAppend(rec, Record_find_phone(rec, old_phone), PhoneSet(new_phone))

\* `if phone_obj: phone_obj.set(new_phone)` on the entry at position i,
\* `else: raise ValueError(...)`; i = 0 when find_phone returned None
SetPhoneAt(rec, i, res) ==
    IF i = 0 THEN Raise("ValueError", "Phone number not found")
    ELSE IF res.ok THEN Ok([rec EXCEPT !.phones[i] = res.v])
    ELSE res

\* Record.edit_phone(old_phone, new_phone)
Record_edit_phone(rec, old_phone, new_phone) ==
    SetPhoneAt(rec, Record_find_phone(rec, old_phone), PhoneSet(new_phone))

\* self.birthday = ... with the Birthday that was built, unless building it raised
SetBirthday(rec, res) ==
    IF res.ok THEN Ok([rec EXCEPT !.birthday = Some(res.v)]) ELSE res

\* Record.add_birthday(birthday)
Record_add_birthday(rec, birthday) == SetBirthday(rec, Birthday(birthday))

\* Record.days_to_birthday without the step to the following year
Record_next_birthday_this_year_only(birthday_date, today) ==
    IF ReplaceYear(birthday_date, today.y) # None
    THEN ReplaceYear(birthday_date, today.y)[1]
    ELSE Date(today.y, 2, 28)

\* Record.days_to_birthday with 1 March as the fallback of 29 February
Record_next_birthday_march(birthday_date, today) ==
    LET first == IF ReplaceYear(birthday_date, today.y) # None
                 THEN ReplaceYear(birthday_date, today.y)[1]
                 ELSE Date(today.y, 3, 1)
    IN  IF DateLess(first, today)
        THEN IF ReplaceYear(birthday_date, today.y + 1) # None
             THEN ReplaceYear(birthday_date, today.y + 1)[1]
             ELSE Date(today.y + 1, 3, 1)
        ELSE first

\* the next_birthday computed inside Record.days_to_birthday
Record_next_birthday(birthday_date, today) ==
    LET first == IF ReplaceYear(birthday_date, today.y) # None
                 THEN ReplaceYear(birthday_date, today.y)[1]
                 ELSE Date(today.y, 2, 28)
        next_year == today.y + 1
    IN  IF DateLess(first, today)
        THEN IF ReplaceYear(birthday_date, next_year) # None
             THEN ReplaceYear(birthday_date, next_year)[1]
             ELSE Date(next_year, 2, 28)
        ELSE first

\* Record.days_to_birthday(), with datetime.today().date() = today
Record_days_to_birthday(rec, today) ==
    IF rec.birthday = None THEN None
    ELSE Some(DaysBetween(Record_next_birthday(rec.birthday[1], today), today))

\* Record.add_email(email)
Record_add_email(rec, email) == [rec EXCEPT !.email = Some(Email(email))]

\* Record.add_address(address)
Record_add_address(rec, address) == [rec EXCEPT !.address = Some(Address(address))]

\* Record.to_dict(); the JSON object has no "Name" key
Record_to_dict(rec) ==
    [name     |-> Some(rec.name),
     Name     |-> None,
     phones   |-> Some(rec.phones),
     birthday |-> IF rec.birthday # None THEN Some(FormatDate(rec.birthday[1])) ELSE None,
     email    |-> IF rec.email # None THEN Some(rec.email[1]) ELSE None,
     address  |-> IF rec.address # None THEN Some(rec.address[1]) ELSE None]

\* Python truthiness of data.get(key): neither None nor empty
Truthy(opt) == opt # None /\ opt[1] # <<>>

\* the loop `for ph in ...: rec.add_phone(ph)` of Record.from_dict
AddPhones(res, phs) ==
    LET RECURSIVE A(_, _)
        A(r, k) == IF k > Len(phs) \/ ~r.ok THEN r
                   ELSE A(Record_add_phone(r.v, phs[k]), k + 1)
    IN  A(res, 1)

\* name = data.get("name") or data.get("Name")
FromDictName(item) ==
    IF Truthy(item.name) THEN item.name
    ELSE IF Truthy(item.Name) THEN item.Name
    ELSE None

\* for ph in data.get("phones", []) or []: rec.add_phone(ph)
FromDictPhones(res, item) ==
    IF res.ok THEN AddPhones(res, IF Truthy(item.phones) THEN item.phones[1] ELSE <<>>)
    ELSE res

\* if bday: rec.add_birthday(bday)
FromDictBirthday(res, item) ==
    IF res.ok /\ Truthy(item.birthday)
    THEN Record_add_birthday(res.v, item.birthday[1]) ELSE res

\* if email: rec.add_email(email)
FromDictEmail(res, item) ==
    IF res.ok /\ Truthy(item.email)
    THEN Ok(Record_add_email(res.v, item.email[1])) ELSE res

\* if address: rec.add_address(address)
FromDictAddress(res, item) ==
    IF res.ok /\ Truthy(item.address)
    THEN Ok(Record_add_address(res.v, item.address[1])) ELSE res

\* Record.from_dict(data)
Record_from_dict(item) ==
    FromDictAddress(
        FromDictEmail(
            FromDictBirthday(
                FromDictPhones(Record(FromDictName(item)), item), item), item), item)

(***************************************************************************)
(* contacts/address_book.py                                                *)
(***************************************************************************)
\* AddressBook.add_record that keeps a record already stored under the name
AddressBook_add_record_keep(book, record) ==
    IF DictHas(book, record.name) THEN book ELSE Append(book, Entry(record.name, record))

\* AddressBook.add_record(record)
AddressBook_add_record(book, record) == DictSet(book, record.name, record)

\* AddressBook.find(name)
AddressBook_find(book, name) == DictGet(book, name)

\* AddressBook.to_dict()
AddressBook_to_dict(book) ==
    [i \in 1..Len(book) |-> Entry(book[i].key, Record_to_dict(book[i].val))]

\* the comprehension of AddressBook.from_dict over the records built from the
\* values of the mapping
FromDictEntries(doc, recs) ==
    IF \A i \in 1..Len(doc) : recs[i].ok
    THEN Ok([i \in 1..Len(doc) |-> Entry(doc[i].key, recs[i].v)])
    ELSE Raise("ValueError", "record does not parse")

\* AddressBook.from_dict(data): the new self.data, unless a record fails to parse
AddressBook_from_dict(doc) ==
    FromDictEntries(doc, [i \in 1..Len(doc) |-> Record_from_dict(doc[i].val)])

\* self.add_record(inst) for the record built from one item, unless building
\* it raised
FromListAdd(book, res) ==
    IF res.ok THEN Ok(AddressBook_add_record(book, res.v)) ELSE res

\* the step of from_list that keeps a record already stored under the name
FromListAdd_keep(book, res) ==
    IF res.ok THEN Ok(AddressBook_add_record_keep(book, res.v)) ELSE res

\* AddressBook.from_list that skips an item whose name is already stored
AddressBook_from_list_first(items) ==
    LET RECURSIVE L(_, _)
        L(res, k) ==
            IF k > Len(items) \/ ~res.ok THEN res
            ELSE L(FromListAdd_keep(res.v, Record_from_dict(items[k])), k + 1)
    IN  L(Ok(<<>>), 1)

\* AddressBook.from_list(items)
AddressBook_from_list(items) ==
    LET RECURSIVE L(_, _)
        L(res, k) ==
            IF k > Len(items) \/ ~res.ok THEN res
            ELSE L(FromListAdd(res.v, Record_from_dict(items[k])), k + 1)
    IN  L(Ok(<<>>), 1)

\* main(): `if isinstance(contacts_data, dict): contacts.from_dict(contacts_data)
\* elif isinstance(contacts_data, list): contacts.from_list(contacts_data)`
LoadContacts(book, value) ==
    IF value.shape = "dict" THEN AddressBook_from_dict(value.doc)
    ELSE IF value.shape = "list" THEN AddressBook_from_list(value.doc)
    ELSE Ok(book)

\* the next_bday computed inside AddressBook.get_upcoming_birthdays
AddressBook_next_bday(birthday_date, today) ==
    LET this_year == IF ReplaceYear(birthday_date, today.y) = None
                     THEN Date(today.y, 2, 28)
                     ELSE ReplaceYear(birthday_date, today.y)[1]
    IN  IF DateLess(this_year, today)
        THEN IF ReplaceYear(birthday_date, today.y + 1) = None
             THEN Date(today.y + 1, 2, 28)
             ELSE ReplaceYear(birthday_date, today.y + 1)[1]
        ELSE this_year

\* the delta computed inside AddressBook.get_upcoming_birthdays
AddressBook_delta(birthday_date, today) ==
    DaysBetween(AddressBook_next_bday(birthday_date, today), today)

\* AddressBook.get_upcoming_birthdays without the clamp of a negative days to 0
AddressBook_get_upcoming_birthdays_unclamped(book, days, today) ==
    LET d0 == IF days = None THEN 7 ELSE days[1]
        RECURSIVE U(_, _)
        U(upcoming, k) ==
            IF k > Len(book) THEN upcoming
            ELSE LET record == book[k].val
                 IN  IF record.birthday = None THEN U(upcoming, k + 1)
                     ELSE LET delta == AddressBook_delta(record.birthday[1], today)
                          IN  IF 0 <= delta /\ delta <= d0
                              THEN U(DictSet(upcoming, record.name,
                                        FormatDate(AddressBook_next_bday(record.birthday[1], today))),
                                     k + 1)
                              ELSE U(upcoming, k + 1)
    IN  U(<<>>, 1)

\* AddressBook.get_upcoming_birthdays(days), with datetime.today().date() = today;
\* days is None when omitted
AddressBook_get_upcoming_birthdays(book, days, today) ==
    LET d0 == IF days = None THEN 7 ELSE days[1]
        d1 == IF d0 < 0 THEN 0 ELSE d0
        RECURSIVE U(_, _)
        U(upcoming, k) ==
            IF k > Len(book) THEN upcoming
            ELSE LET record == book[k].val
                 IN  IF record.birthday = None THEN U(upcoming, k + 1)
                     ELSE LET delta == AddressBook_delta(record.birthday[1], today)
                          IN  IF 0 <= delta /\ delta <= d1
                              THEN U(DictSet(upcoming, record.name,
                                        FormatDate(AddressBook_next_bday(record.birthday[1], today))),
                                     k + 1)
                              ELSE U(upcoming, k + 1)
    IN  U(<<>>, 1)

(***************************************************************************)
(* core.py: input_error, and the values a command function returns         *)
(***************************************************************************)
\* a returned string: its fixed text and the values interpolated in it
Msg(text, arg) == [text |-> text, arg |-> arg]

\* the outcome of a command function: the collection after it and what it returned
Returned(book, ret) == [book |-> book, ret |-> ret]

\* input_error without its last clause `except Exception`: any other exception
\* leaves the command function
input_error_no_blanket(res) ==
    CASE res.exc = "ValueError" -> Msg(res.msg, <<>>)
      [] res.exc = "KeyError"   -> Msg("Contact not found.", <<>>)
      [] res.exc = "IndexError" ->
            Msg("Invalid command format. Please provide all required arguments.", <<>>)
      [] OTHER -> [raised |-> res.exc]

\* input_error: the string returned when the wrapped function raised
input_error(res) ==
    CASE res.exc = "ValueError" -> Msg(res.msg, <<>>)
      [] res.exc = "KeyError"   -> Msg("Contact not found.", <<>>)
      [] res.exc = "IndexError" ->
            Msg("Invalid command format. Please provide all required arguments.", <<>>)
      [] OTHER -> Msg("An error occurred: {e}", <<res.msg>>)

\* int(token): None stands for the ValueError of a non-numeric token
ParsePyInt(token) ==
    LET signed == Len(token) > 0 /\ token[1] \in {"-", "+"}
        body   == IF signed THEN SubSeq(token, 2, Len(token)) ELSE token
    IN  IF Len(body) > 0 /\ AllDigits(body)
        THEN Some(IF signed /\ token[1] = "-" THEN 0 - ParseInt(body) ELSE ParseInt(body))
        ELSE None

(***************************************************************************)
(* contacts/commands.py                                                    *)
(***************************************************************************)
\* format_contact(record, include_fields, birthday_override): the block shown for
\* a contact, kept as the record, the fields shown and the overriding date
format_contact(record, include_fields, birthday_override) ==
    [record |-> record, include_fields |-> include_fields,
     birthday_override |-> birthday_override]

AllFields == {"phones", "birthday", "email", "address"}

\* the record stored under `name`, created and stored first when there is none:
\* `record = book.find(name); if not record: record = Record(name); book.add_record(record)`
FindOrCreate(book, name) ==
    IF AddressBook_find(book, name) # None THEN Ok(book)
    ELSE IF Record(Some(name)).ok
    THEN Ok(AddressBook_add_record(book, Record(Some(name)).v))
    ELSE Record(Some(name))

\* add_contact(args, book)
add_contact(args, book) ==
    IF Len(args) < 2 \/ Len(args[2]) # 10 \/ ~IsDigit(args[2])
    THEN Returned(book, Msg("Usage: add [name] [phone number] with 10 digits", <<>>))
    ELSE LET name    == args[1]
             phone   == args[2]
             message == IF AddressBook_find(book, name) = None
                        THEN "Contact {name} created." ELSE "Contact {name} updated."
             made    == FindOrCreate(book, name)
         IN  IF ~made.ok THEN Returned(book, input_error(made))
             ELSE LET i   == DictIndex(made.v, name)
                      res == Record_add_phone(made.v[i].val, phone)
                  IN  IF res.ok
                      THEN Returned([made.v EXCEPT ![i].val = res.v], Msg(message, <<name>>))
                      ELSE Returned(made.v, input_error(res))

\* change_contact(args, book)
change_contact(args, book) ==
    IF Len(args) # 3
    THEN Returned(book, Msg("Usage: change [name] [old phone] [new phone]", <<>>))
    ELSE LET name == args[1]
             i    == DictIndex(book, name)
         IN  IF AddressBook_find(book, name) = None
             THEN Returned(book, Msg("Contact not found.", <<>>))
             ELSE LET res == Record_edit_phone(book[i].val, args[2], args[3])
                  IN  IF res.ok
                      THEN Returned([book EXCEPT ![i].val = res.v],
                                    Msg("Phone number for {name} has been changed.", <<name>>))
                      ELSE Returned(book, input_error(res))

\* show_phone(args, book)
show_phone(args, book) ==
    IF Len(args) # 1
    THEN Returned(book, Msg("Usage: phone <name> <phone>", <<>>))
    ELSE IF AddressBook_find(book, args[1]) = None
    THEN Returned(book, Msg("Contact not found.", <<>>))
    ELSE Returned(book, Msg("{contacts}",
            <<format_contact(AddressBook_find(book, args[1])[1], {"phones"}, None)>>))

\* show_all(args, book)
show_all(args, book) ==
    IF book = <<>>
    THEN Returned(book, Msg("The contact list is empty.", <<>>))
    ELSE Returned(book, Msg("{contacts}",
            [i \in 1..Len(book) |-> format_contact(book[i].val, AllFields, None)]))

\* add_birthday(args, book)
add_birthday(args, book) ==
    IF Len(args) # 2
    THEN Returned(book, Msg("Usage: add-birthday [name] [date in DD.MM.YYYY format]", <<>>))
    ELSE LET name == args[1]
             made == FindOrCreate(book, name)
         IN  IF ~made.ok THEN Returned(book, input_error(made))
             ELSE LET i   == DictIndex(made.v, name)
                      res == Record_add_birthday(made.v[i].val, args[2])
                  IN  IF res.ok
                      THEN Returned([made.v EXCEPT ![i].val = res.v],
                                    Msg("Birthday for {name} has been added.", <<name>>))
                      ELSE Returned(made.v, input_error(res))

\* show_birthday that stores a new record when the name is absent
show_birthday_creating(args, book) ==
    IF Len(args) # 1
    THEN Returned(book, Msg("Usage: show-birthday [name]", <<>>))
    ELSE IF AddressBook_find(book, args[1]) = None
    THEN Returned(FindOrCreate(book, args[1]).v, Msg("Contact not found.", <<>>))
    ELSE Returned(book, Msg("{contacts}",
            <<format_contact(AddressBook_find(book, args[1])[1], {"birthday"}, None)>>))

\* show_birthday(args, book)
show_birthday(args, book) ==
    IF Len(args) # 1
    THEN Returned(book, Msg("Usage: show-birthday [name]", <<>>))
    ELSE IF AddressBook_find(book, args[1]) = None
    THEN Returned(book, Msg("Contact not found.", <<>>))
    ELSE Returned(book, Msg("{contacts}",
            <<format_contact(AddressBook_find(book, args[1])[1], {"birthday"}, None)>>))

\* birthdays(args, book), with datetime.today().date() = today
birthdays(args, book, today) ==
    IF args # <<>> /\ ParsePyInt(args[1]) = None
    THEN Returned(book, input_error(Raise("ValueError", "invalid literal for int() with base 10")))
    ELSE LET days   == IF args # <<>> THEN ParsePyInt(args[1])[1] ELSE 7
             window == IF days > 0 THEN days ELSE 0
             result == AddressBook_get_upcoming_birthdays(book, Some(window), today)
         IN  IF result = <<>>
             THEN Returned(book, Msg("No birthdays within the next {window} {suffix}.", <<window>>))
             ELSE Returned(book, Msg("{contacts}",
                    [k \in 1..Len(result) |->
                        IF AddressBook_find(book, result[k].key) # None
                        THEN format_contact(AddressBook_find(book, result[k].key)[1],
                                            {"birthday"}, Some(result[k].val))
                        ELSE [name |-> result[k].key, date |-> result[k].val]]))

\* add_email(args, book)
add_email(args, book) ==
    IF Len(args) # 2
    THEN Returned(book, Msg("Usage: add-email [name] [email]", <<>>))
    ELSE LET name == args[1]
             made == FindOrCreate(book, name)
         IN  IF ~made.ok THEN Returned(book, input_error(made))
             ELSE Returned([made.v EXCEPT ![DictIndex(made.v, name)].val =
                                Record_add_email(@, args[2])],
                           Msg("Email for {name} has been added.", <<name>>))

\* add_address(args, book)
add_address(args, book) ==
    IF Len(args) < 2
    THEN Returned(book, Msg("Usage: add-address [name] [address]", <<>>))
    ELSE LET name    == args[1]
             address == JoinSpace(SubSeq(args, 2, Len(args)))
             made    == FindOrCreate(book, name)
         IN  IF ~made.ok THEN Returned(book, input_error(made))
             ELSE Returned([made.v EXCEPT ![DictIndex(made.v, name)].val =
                                Record_add_address(@, address)],
                           Msg("Address for {name} has been added.", <<name>>))

\* book.delete(name): class AddressBook defines no method `delete`, so the
\* attribute lookup raises AttributeError
AddressBook_delete(book, name) ==
    Raise("AttributeError", "'AddressBook' object has no attribute 'delete'")

\* delete_contact(args, book)
delete_contact(args, book) ==
    IF Len(args) # 1
    THEN Returned(book, Msg("Usage: delete-contact [name]", <<>>))
    ELSE LET deleted == AddressBook_delete(book, args[1])
         IN  IF ~deleted.ok THEN Returned(book, input_error(deleted))
             ELSE IF deleted.v.deleted
             THEN Returned(deleted.v.book, Msg("Contact {name} deleted.", <<args[1]>>))
             ELSE Returned(deleted.v.book, Msg("Contact not found.", <<>>))

\* the test of search_contacts with the address comparison left out
SearchMatches_no_address(contact, ql) ==
    \/ Contains(ql, Lower(contact.name))
    \/ \E k \in 1..Len(contact.phones) : Contains(ql, Lower(contact.phones[k]))
    \/ contact.email # None /\ Contains(ql, Lower(contact.email[1]))

\* the test the loop of search_contacts applies to one contact
SearchMatches(contact, ql) ==
    \/ Contains(ql, Lower(contact.name))
    \/ \E k \in 1..Len(contact.phones) : Contains(ql, Lower(contact.phones[k]))
    \/ contact.email # None /\ Contains(ql, Lower(contact.email[1]))
    \/ contact.address # None /\ Contains(ql, Lower(contact.address[1]))

\* search_contacts(args, book)
search_contacts(args, book) ==
    IF args = <<>>
    THEN Returned(book, Msg("Usage: search-contacts <query>", <<>>))
    ELSE LET query == Strip(JoinSpace(args))
             ql    == Lower(query)
             RECURSIVE Loop(_, _)
             Loop(matches, k) ==
                 IF k > Len(book) THEN matches
                 ELSE IF SearchMatches(book[k].val, ql)
                 THEN Loop(Append(matches, book[k].val), k + 1)
                 ELSE Loop(matches, k + 1)
             matches == Loop(<<>>, 1)
         IN  IF matches = <<>>
             THEN Returned(book, Msg("No contacts matched '{query}'.", <<query>>))
             ELSE Returned(book, Msg("{contacts}",
                    [k \in 1..Len(matches) |-> format_contact(matches[k], AllFields, None)]))

(***************************************************************************)
(* assistant/notes: Note, Notebook and the add-note command.  A timestamp  *)
(* is the value of `clock` when datetime.now() is read; isoformat() of it  *)
(* is kept as that value, since the code only stores and copies the string *)
(***************************************************************************)
\* Note(title, content, tags) constructed when the clock reads `now`
Note(title, content, tags, now) ==
    [title |-> title, content |-> content,
     tags |-> IF tags = None \/ tags[1] = <<>> THEN <<>> ELSE tags[1],
     created_at |-> now, updated_at |-> now]

\* Note.update_content
Note_update_content(note, new_content, now) ==
    [note EXCEPT !.content = new_content, !.updated_at = now]

\* Note.add_tag
Note_add_tag(note, tag, now) ==
    IF \E k \in 1..Len(note.tags) : note.tags[k] = tag THEN note
    ELSE [note EXCEPT !.tags = Append(note.tags, tag), !.updated_at = now]

\* Note.remove_tag: list.remove drops the first occurrence
Note_remove_tag(note, tag, now) ==
    IF \E k \in 1..Len(note.tags) : note.tags[k] = tag
    THEN LET first == CHOOSE k \in 1..Len(note.tags) :
                         /\ note.tags[k] = tag
                         /\ \A j \in 1..(k - 1) : note.tags[j] # tag
         IN  [note EXCEPT !.tags = SubSeq(note.tags, 1, first - 1)
                                     \o SubSeq(note.tags, first + 1, Len(note.tags)),
                          !.updated_at = now]
    ELSE note

\* Notebook.add_note with the duplicate-title test left out
Notebook_add_note_overwrite(notebook, title, content, tags, now) ==
    Returned(DictSet(notebook, title, Note(title, content, tags, now)),
             Msg("Note '{title}' added successfully.", <<title>>))

\* Notebook.add_note
Notebook_add_note(notebook, title, content, tags, now) ==
    IF DictHas(notebook, title)
    THEN Returned(notebook, Msg("Note with title '{title}' already exists.", <<title>>))
    ELSE Returned(DictSet(notebook, title, Note(title, content, tags, now)),
                  Msg("Note '{title}' added successfully.", <<title>>))

\* Notebook.get_note
Notebook_get_note(notebook, title) == DictGet(notebook, title)

\* Notebook.edit_note storing a newly constructed note instead of updating
Notebook_edit_note_recreate(notebook, title, new_content, now) ==
    IF ~DictHas(notebook, title)
    THEN Returned(notebook, Msg("Note '{title}' not found.", <<title>>))
    ELSE Returned(DictSet(notebook, title, Note(title, new_content, None, now)),
                  Msg("Note '{title}' updated successfully.", <<title>>))

\* Notebook.edit_note
Notebook_edit_note(notebook, title, new_content, now) ==
    IF ~DictHas(notebook, title)
    THEN Returned(notebook, Msg("Note '{title}' not found.", <<title>>))
    ELSE Returned(DictSet(notebook, title,
                          Note_update_content(DictGet(notebook, title)[1], new_content, now)),
                  Msg("Note '{title}' updated successfully.", <<title>>))

\* Notebook.delete_note
Notebook_delete_note(notebook, title) ==
    IF ~DictHas(notebook, title)
    THEN Returned(notebook, Msg("Note '{title}' not found.", <<title>>))
    ELSE Returned(DictDel(notebook, title),
                  Msg("Note '{title}' deleted successfully.", <<title>>))

\* add_note(args, notebook) of notes/commands.py
add_note(args, notebook, now) ==
    IF Len(args) < 2
    THEN Returned(notebook,
            Msg("Error: Please provide both title and content.\nUsage: add-note <title> <content>",
                <<>>))
    ELSE Notebook_add_note(notebook, args[1], JoinSpace(Tail(args)), None, now)

\* Notebook.search_notes
Notebook_search_notes(notebook, keyword) ==
    SelectSeq([i \in 1..Len(notebook) |-> notebook[i].val],
              LAMBDA note : \/ Contains(Lower(keyword), Lower(note.title))
                            \/ Contains(Lower(keyword), Lower(note.content)))

\* Notebook.get_all_notes
Notebook_get_all_notes(notebook) == [i \in 1..Len(notebook) |-> notebook[i].val]

\* edit_note(args, notebook) of notes/commands.py
edit_note(args, notebook, now) ==
    IF Len(args) < 2
    THEN Returned(notebook,
            Msg("Error: Please provide both title and new content.\nUsage: edit-note <title> <new_content>",
                <<>>))
    ELSE Notebook_edit_note(notebook, args[1], JoinSpace(Tail(args)), now)

\* delete_note(args, notebook) of notes/commands.py
delete_note(args, notebook) ==
    IF Len(args) < 1
    THEN Returned(notebook,
            Msg("Error: Please provide the note title.\nUsage: delete-note <title>", <<>>))
    ELSE Notebook_delete_note(notebook, args[1])

\* search_notes(args, notebook) of notes/commands.py: the listing is kept as
\* the notes it renders
search_notes(args, notebook) ==
    IF Len(args) < 1
    THEN Returned(notebook,
            Msg("Error: Please provide a search keyword.\nUsage: search-note <keyword>", <<>>))
    ELSE IF Notebook_search_notes(notebook, args[1]) = <<>>
    THEN Returned(notebook, Msg("No notes found containing '{keyword}'.", <<args[1]>>))
    ELSE Returned(notebook, Msg("Found {n} note(s) containing '{keyword}':",
                                Notebook_search_notes(notebook, args[1])))

\* show_all_notes(args, notebook) of notes/commands.py
show_all_notes(args, notebook) ==
    IF Notebook_get_all_notes(notebook) = <<>>
    THEN Returned(notebook,
            Msg("No notes found. Add your first note with: add-note <title> <content>", <<>>))
    ELSE Returned(notebook, Msg("All Notes ({n} total):", Notebook_get_all_notes(notebook)))

\* Note.to_dict
Note_to_dict(note) ==
    [title |-> note.title, content |-> note.content, tags |-> Some(note.tags),
     created_at |-> Some(note.created_at), updated_at |-> Some(note.updated_at)]

\* Note.from_dict that keeps the timestamps of the newly constructed note
Note_from_dict_fresh(item, now) ==
    Note(item.title, item.content, IF item.tags = None THEN Some(<<>>) ELSE item.tags, now)

\* Note.from_dict(data) called when the clock reads `now`; an absent key of the
\* document is None
Note_from_dict(item, now) ==
    LET note == Note(item.title, item.content,
                     IF item.tags = None THEN Some(<<>>) ELSE item.tags, now)
    IN  [note EXCEPT
            !.created_at = IF item.created_at = None THEN note.created_at
                           ELSE item.created_at[1],
            !.updated_at = IF item.updated_at = None THEN note.updated_at
                           ELSE item.updated_at[1]]

\* Notebook.to_dict
Notebook_to_dict(notebook) ==
    [i \in 1..Len(notebook) |-> Entry(notebook[i].key, Note_to_dict(notebook[i].val))]

\* Notebook.from_dict(data): the new self.notes
Notebook_from_dict(doc, now) ==
    [i \in 1..Len(doc) |-> Entry(doc[i].key, Note_from_dict(doc[i].val, now))]

(***************************************************************************)
(* storage_manager.py and the persistence of main.py.  A file is missing,  *)
(* holds text that is not JSON, or holds a JSON value: a mapping or a list *)
(***************************************************************************)
FileMissing == [kind |-> "missing"]

FileInvalid == [kind |-> "invalid"]

FileJson(shape, doc) == [kind |-> "json", shape |-> shape, doc |-> doc]

\* save_data(file_path, data): the file afterwards
save_data(value) == FileJson(value.shape, value.doc)

\* load_data(file_path, default): the value returned and the file afterwards
load_data(file, default) ==
    CASE file.kind = "missing" -> [value |-> default, file |-> save_data(default)]
      [] file.kind = "invalid" -> [value |-> default, file |-> file]
      [] OTHER -> [value |-> [shape |-> file.shape, doc |-> file.doc], file |-> file]

\* the default of both load_data calls: {}
EmptyMapping == [shape |-> "dict", doc |-> <<>>]

\* persist() writing the contacts document only
persist_contacts_only(p, contacts, notebook) ==
    [p EXCEPT !.contacts_file =
                  save_data([shape |-> "dict", doc |-> AddressBook_to_dict(contacts)]),
              !.writes = @ + 1]

\* persist() of main(): both documents are written from the collections
persist(p, contacts, notebook) ==
    [p EXCEPT !.contacts_file =
                  save_data([shape |-> "dict", doc |-> AddressBook_to_dict(contacts)]),
              !.notes_file =
                  save_data([shape |-> "dict", doc |-> Notebook_to_dict(notebook)]),
              !.writes = @ + 1]

(***************************************************************************)
(* The handlers the two register functions store under each command word   *)
(***************************************************************************)
ContactCommands ==
    {"add", "change", "phone", "all", "add-birthday", "show-birthday", "birthdays",
     "search-contacts", "add-email", "add-address", "delete-contact"}

NoteCommands == {"add-note", "edit-note", "delete-note", "search-note", "show-notes"}

\* handler(args, contacts) for the handler register_contact_commands stores
ContactHandler(cmd, args, book, today) ==
    CASE cmd = "add"             -> add_contact(args, book)
      [] cmd = "change"          -> change_contact(args, book)
      [] cmd = "phone"           -> show_phone(args, book)
      [] cmd = "all"             -> show_all(args, book)
      [] cmd = "add-birthday"    -> add_birthday(args, book)
      [] cmd = "show-birthday"   -> show_birthday(args, book)
      [] cmd = "birthdays"       -> birthdays(args, book, today)
      [] cmd = "search-contacts" -> search_contacts(args, book)
      [] cmd = "add-email"       -> add_email(args, book)
      [] cmd = "add-address"     -> add_address(args, book)
      [] cmd = "delete-contact"  -> delete_contact(args, book)

\* handler(args, notes) for the handler register_note_commands stores
NoteHandler(cmd, args, notebook, now) ==
    CASE cmd = "add-note"    -> add_note(args, notebook, now)
      [] cmd = "edit-note"   -> edit_note(args, notebook, now)
      [] cmd = "delete-note" -> delete_note(args, notebook)
      [] cmd = "search-note" -> search_notes(args, notebook)
      [] cmd = "show-notes"  -> show_all_notes(args, notebook)

(***************************************************************************)
(* Bounds and input values                                                 *)
(***************************************************************************)
\* "today" ranges over every day of 2023 .. 2023 + YearSpan
YearSpan == 1

\* every calendar day of the years lo..hi
DaysOfYears(lo, hi) ==
    {dt \in {Date(y, m, d) : y \in lo..hi, m \in 1..12, d \in 1..31} :
        ValidDate(dt.y, dt.m, dt.d)}

Todays == DaysOfYears(2023, 2023 + YearSpan)

\* stored birthdays: every day of five months of the leap year 2000
BirthdayDates == {dt \in DaysOfYears(2000, 2000) : dt.m \in {1, 2, 3, 7, 12}}

Al == <<"A", "l">>

Bo == <<"B", "o">>

\* a record holds at most MaxPhones phones in the record-level specifications
MaxPhones == 2

\* phone strings given to Record.add_phone / edit_phone: plain, padded, blank
PhoneInputs ==
    { <<"1", "1", "1">>, <<"2", "2", "2">>, <<" ", "3", "3", "3", " ">>, <<" ">> }

\* birthday strings: 29.02.2000, 1.1.1999 and the impossible 31.02.2001
BirthdayInputs ==
    { <<"2", "9", ".", "0", "2", ".", "2", "0", "0", "0">>,
      <<"1", ".", "1", ".", "1", "9", "9", "9">>,
      <<"3", "1", ".", "0", "2", ".", "2", "0", "0", "1">> }

\* email strings: an address, and a blank string
EmailInputs == { <<"A", "@", "b">>, <<" ">> }

\* address strings
AddressInputs == { <<"K", "y", " ", "1">> }

\* the day of a session
SessionDay == Date(2023, 2, 28)

\* records built by a caller before AddressBook.add_record: a bare one, one with
\* every field set, one born on 29 February, one with a blank email
BareRecord(n) == Record(Some(n)).v

FullRecord(n) ==
    Record_add_address(
        Record_add_email(
            Record_add_birthday(
                Record_add_phone(
                    Record_add_phone(BareRecord(n), <<"1", "1", "1">>).v,
                    <<"2", "2", "2">>).v,
                <<"0", "7", ".", "0", "3", ".", "1", "9", "9", "0">>).v,
            <<"A", "@", "b">>),
        <<"K", "y", " ", "1">>)

LeapRecord(n) ==
    Record_add_birthday(BareRecord(n),
        <<"2", "9", ".", "0", "2", ".", "2", "0", "0", "0">>).v

BlankEmailRecord(n) ==
    Record_add_email(
        Record_add_birthday(BareRecord(n),
            <<"0", "8", ".", "0", "3", ".", "1", "9", "9", "0">>).v,
        <<" ">>)

RecordPool ==
    UNION {{BareRecord(n), FullRecord(n), LeapRecord(n), BlankEmailRecord(n)} : n \in {Al, Bo}}

\* the days argument of get_upcoming_birthdays: omitted, negative, 0 and around 7
DaysInputs == {None, Some(-5), Some(0), Some(6), Some(7), Some(8)}

\* a JSON object of a contacts document
Item(name, legacy, phones, birthday, email, address) ==
    [name |-> name, Name |-> legacy, phones |-> phones, birthday |-> birthday,
     email |-> email, address |-> address]

\* contacts documents: one written by to_dict; one whose key differs from the
\* record's name; one in the legacy spelling "Name" with a blank-padded email
Documents ==
    { << Entry(Al, Record_to_dict(FullRecord(Al))),
         Entry(Bo, Record_to_dict(LeapRecord(Bo))) >>,
      << Entry(Bo, Record_to_dict(FullRecord(Al))) >>,
      << Entry(Al, Item(None, Some(Al), None, None, Some(<<" ">>), Some(<<>>))) >> }

\* list-shaped (legacy) contacts documents: one naming Al twice, and one with
\* distinct names, the second in the legacy spelling "Name"
ListDocuments ==
    { << Record_to_dict(LeapRecord(Al)), Record_to_dict(BareRecord(Bo)),
         Record_to_dict(FullRecord(Al)) >>,
      << Record_to_dict(FullRecord(Bo)),
         Item(None, Some(Al), Some(<< <<"1", "1", "1">> >>), None, None, None) >> }

\* values load_data returns for the contacts document: a mapping, a list, or
\* another JSON value
LoadedValues ==
    {[shape |-> "dict", doc |-> d] : d \in Documents}
    \cup {[shape |-> "list", doc |-> l] : l \in ListDocuments}
    \cup {[shape |-> "other", doc |-> <<>>]}

\* tokens of command lines (parse_input splits on whitespace: no token is empty
\* or holds a blank)
Phone10 == <<"0", "5", "0", "1", "2", "3", "4", "5", "6", "7">>

PhoneAB == <<"A", "B", "1">>

Tok2902 == <<"2", "9", ".", "0", "2", ".", "2", "0", "0", "0">>

Tok3102 == <<"3", "1", ".", "0", "2", ".", "2", "0", "0", "1">>

TokMail == <<"A", "@", "b">>

NameTokens == {Al, Bo}

\* argument lists of each contact command, with lists of a wrong length
AddArgs == {<<Al, Phone10>>, <<Bo, Phone10>>, <<Al, PhoneAB>>, <<Al>>}

ChangeArgs == {<<Al, Phone10, PhoneAB>>, <<Bo, PhoneAB, Phone10>>, <<Al, PhoneAB>>}

NameArgs == {<<n>> : n \in NameTokens} \cup {<<>>}

AddBirthdayArgs == {<<Al, Tok2902>>, <<Bo, Tok2902>>, <<Bo, Tok3102>>, <<Al>>}

BirthdaysArgs == {<<>>, << <<"-", "5">> >>, << <<"x">> >>}

AddEmailArgs == {<<Al, TokMail>>, <<Al>>}

AddAddressArgs == {<<Bo, <<"K", "y">>, <<"1">> >>, <<Al>>}

SearchArgs ==
    { << <<"a", "L">> >>, << <<"a", "b">> >>, << <<"@", "B">> >>,
      << <<"k", "Y">>, <<"1">> >>, << <<"0", "5", "0">> >>, <<>> }

\* the clock reads 0..MaxClock
MaxClock == 2

NoteTitles == { <<"A", "1">>, <<"B", "1">> }

\* contents; the second is what add-note joins from the tokens "b" and "a"
NoteContents == { <<"a">>, <<"b", " ", "a">> }

NoteTag == <<"K">>

\* the tags argument of Notebook.add_note: omitted, one tag, or a list naming
\* the same tag twice
NoteTagInputs == { None, Some(<<NoteTag>>), Some(<<NoteTag, NoteTag>>) }

\* argument lists of add-note, one of them too short
NoteAddArgs == { <<t, <<"b">>, <<"a">> >> : t \in NoteTitles } \cup { << <<"A", "1">> >> }

\* a surplus token
TokX == <<"x">>

NoteA1 == <<"A", "1">>

\* the argument lists tried with each contact command: the required number of
\* arguments, fewer, and more
ContactCalls ==
    [cmd : {"add"}, args : {<<Al, Phone10>>, <<Al>>, <<Al, Phone10, TokX>>, <<>>}]
    \cup [cmd : {"change"},
          args : {<<Al, Phone10, PhoneAB>>, <<Al, Phone10>>, <<Al, Phone10, PhoneAB, TokX>>,
                  <<Bo, Phone10, PhoneAB>>}]
    \cup [cmd : {"phone", "show-birthday", "delete-contact"},
          args : {<<Al>>, <<>>, <<Al, TokX>>}]
    \cup [cmd : {"all"}, args : {<<>>, <<TokX>>}]
    \cup [cmd : {"add-birthday"},
          args : {<<Al, Tok2902>>, <<Al, Tok3102>>, <<Al>>, <<Al, Tok2902, TokX>>}]
    \cup [cmd : {"birthdays"}, args : {<<>>, << <<"3", "6", "6">> >>, <<TokX>>}]
    \cup [cmd : {"search-contacts"}, args : {<< <<"a">> >>, <<TokX>>, <<>>}]
    \cup [cmd : {"add-email"}, args : {<<Al, TokMail>>, <<Al>>, <<Al, TokMail, TokX>>}]
    \cup [cmd : {"add-address"}, args : {<<Al, <<"K", "y">>, <<"1">> >>, <<Al>>}]

\* the argument lists tried with each note command
NoteCalls ==
    [cmd : {"add-note"}, args : {<<NoteA1, <<"b">> >>, <<NoteA1>>, <<>>}]
    \cup [cmd : {"edit-note"}, args : {<<NoteA1, <<"a">> >>, <<NoteA1>>}]
    \cup [cmd : {"delete-note"}, args : {<<NoteA1>>, <<>>, <<NoteA1, TokX>>}]
    \cup [cmd : {"search-note"}, args : {<< <<"B">> >>, <<>>, << <<"a">>, TokX>>}]
    \cup [cmd : {"show-notes"}, args : {<<>>}]

\* a note as Note.to_dict writes it, and one with only the required keys
NoteItemFull ==
    [title |-> NoteA1, content |-> <<"a">>, tags |-> Some(<<NoteTag>>),
     created_at |-> Some(0), updated_at |-> Some(0)]

NoteItemBare ==
    [title |-> NoteA1, content |-> <<"b">>, tags |-> None,
     created_at |-> None, updated_at |-> None]

\* the contacts file found when the process starts
ContactsFiles ==
    {FileMissing, FileInvalid}
    \cup {FileJson("dict", d) : d \in
            {<<>>, << Entry(Bo, Record_to_dict(BareRecord(Al))) >>,
             << Entry(Al, Record_to_dict(FullRecord(Al))) >>}}
    \cup {FileJson("list", << Record_to_dict(BareRecord(Bo)), Record_to_dict(LeapRecord(Al)) >>)}

\* the notes file found when the process starts
NotesFiles ==
    {FileMissing, FileInvalid}
    \cup {FileJson("dict", d) : d \in
            {<<>>, << Entry(NoteA1, NoteItemFull) >>, << Entry(NoteA1, NoteItemBare) >>}}
    \cup {FileJson("list", << NoteItemFull >>)}

\* the lines waiting on standard input when the process starts
StdinInputs == { <<>>, <<"close">>, <<"all">>, <<"hello", "close">>, <<"  ", "bogus">> }

\* contacts documents found at startup: the empty default, and one whose key
\* differs from the name of the record stored under it
StartDocuments == { <<>>, << Entry(Bo, Record_to_dict(BareRecord(Al))) >> }

\* a list-shaped contacts document found at startup
StartLists == { << Record_to_dict(BareRecord(Bo)), Record_to_dict(BareRecord(Al)) >> }

(***************************************************************************)
(* Specification SpecDate: one contact with a birthday, any today; the two *)
(* birthday computations are applied to them                               *)
(***************************************************************************)
InitDate ==
    /\ \E b \in BirthdayDates :
          data = AddressBook_add_record(<<>>,
                    Record_add_birthday(Record(Some(Al)).v, FormatDate(b)).v)
    /\ notes = <<>>
    /\ sysdate \in Todays
    /\ clock = 0
    /\ proc = NoProcess
    /\ out = [op |-> "init"]

\* record.days_to_birthday() on a stored record
DaysToBirthdayCall ==
    \E i \in 1..Len(data) :
        /\ out' = [op |-> "days_to_birthday",
                   birthday |-> data[i].val.birthday,
                   result |-> Record_days_to_birthday(data[i].val, sysdate)]
        /\ UNCHANGED <<data, notes, sysdate, clock, proc>>

\* book.get_upcoming_birthdays(366): a window that holds every next occurrence
UpcomingYearCall ==
    /\ out' = [op |-> "get_upcoming_birthdays", days |-> Some(366),
               result |-> AddressBook_get_upcoming_birthdays(data, Some(366), sysdate)]
    /\ UNCHANGED <<data, notes, sysdate, clock, proc>>

NextDate == DaysToBirthdayCall \/ UpcomingYearCall

SpecDate == InitDate /\ [][NextDate]_vars

(***************************************************************************)
(* Calls of the Record methods on a stored record (the record object is    *)
(* mutated in place)                                                       *)
(***************************************************************************)
\* the book with the record at position i replaced by the outcome of a method,
\* unchanged when the method raised
Mutated(i, res) == IF res.ok THEN [data EXCEPT ![i].val = res.v] ELSE data

AddPhoneCall ==
    \E i \in 1..Len(data), phone \in PhoneInputs :
        /\ Len(data[i].val.phones) < MaxPhones
        /\ data' = Mutated(i, Record_add_phone(data[i].val, phone))
        /\ out' = [op |-> "add_phone", at |-> i, phone |-> phone,
                   ok |-> Record_add_phone(data[i].val, phone).ok]
        /\ UNCHANGED <<notes, sysdate, clock, proc>>

RemovePhoneCall ==
    \E i \in 1..Len(data), phone \in PhoneInputs :
        /\ data' = Mutated(i, Record_remove_phone(data[i].val, phone))
        /\ out' = [op |-> "remove_phone", at |-> i, phone |-> phone,
                   ok |-> Record_remove_phone(data[i].val, phone).ok]
        /\ UNCHANGED <<notes, sysdate, clock, proc>>

EditPhoneCall ==
    \E i \in 1..Len(data), old_phone \in PhoneInputs, new_phone \in PhoneInputs :
        /\ data' = Mutated(i, Record_edit_phone(data[i].val, old_phone, new_phone))
        /\ out' = [op |-> "edit_phone", at |-> i, old_phone |-> old_phone,
                   new_phone |-> new_phone,
                   ok |-> Record_edit_phone(data[i].val, old_phone, new_phone).ok]
        /\ UNCHANGED <<notes, sysdate, clock, proc>>

AddBirthdayCall ==
    \E i \in 1..Len(data), birthday \in BirthdayInputs :
        /\ data' = Mutated(i, Record_add_birthday(data[i].val, birthday))
        /\ out' = [op |-> "add_birthday", at |-> i, birthday |-> birthday,
                   ok |-> Record_add_birthday(data[i].val, birthday).ok]
        /\ UNCHANGED <<notes, sysdate, clock, proc>>

AddEmailCall ==
    \E i \in 1..Len(data), email \in EmailInputs :
        /\ data' = [data EXCEPT ![i].val = Record_add_email(@, email)]
        /\ out' = [op |-> "add_email", at |-> i, email |-> email, ok |-> TRUE]
        /\ UNCHANGED <<notes, sysdate, clock, proc>>

AddAddressCall ==
    \E i \in 1..Len(data), address \in AddressInputs :
        /\ data' = [data EXCEPT ![i].val = Record_add_address(@, address)]
        /\ out' = [op |-> "add_address", at |-> i, address |-> address, ok |-> TRUE]
        /\ UNCHANGED <<notes, sysdate, clock, proc>>

\* AddressBook().from_dict(book.to_dict()): a fresh collection from the serialized one
RoundTripCall ==
    /\ out' = [op |-> "roundtrip", doc |-> AddressBook_to_dict(data),
               loaded |-> AddressBook_from_dict(AddressBook_to_dict(data))]
    /\ UNCHANGED <<data, notes, sysdate, clock, proc>>

(***************************************************************************)
(* Specification SpecRecord: one Record and its methods                    *)
(***************************************************************************)
InitRecord ==
    /\ data = AddressBook_add_record(<<>>, Record(Some(Al)).v)
    /\ notes = <<>>
    /\ sysdate = SessionDay
    /\ clock = 0
    /\ proc = NoProcess
    /\ out = [op |-> "init"]

\* the change command on the contact of this specification
ChangePhoneCall ==
    \E old_phone \in PhoneInputs, new_phone \in PhoneInputs :
        /\ data' = change_contact(<<Al, old_phone, new_phone>>, data).book
        /\ out' = [op |-> "change", args |-> <<Al, old_phone, new_phone>>,
                   ret |-> change_contact(<<Al, old_phone, new_phone>>, data).ret]
        /\ UNCHANGED <<notes, sysdate, clock, proc>>

NextRecord ==
    \/ AddPhoneCall
    \/ RemovePhoneCall
    \/ EditPhoneCall
    \/ ChangePhoneCall
    \/ AddBirthdayCall
    \/ AddEmailCall
    \/ AddAddressCall
    \/ DaysToBirthdayCall
    \/ RoundTripCall

SpecRecord == InitRecord /\ [][NextRecord]_vars

(***************************************************************************)
(* Specification SpecBook: the AddressBook methods                         *)
(***************************************************************************)
InitBook ==
    /\ data = <<>>
    /\ notes = <<>>
    /\ sysdate = SessionDay
    /\ clock = 0
    /\ proc = NoProcess
    /\ out = [op |-> "init"]

AddRecordCall ==
    \E record \in RecordPool :
        /\ data' = AddressBook_add_record(data, record)
        /\ out' = [op |-> "add_record", record |-> record,
                   replaced |-> DictHas(data, record.name)]
        /\ UNCHANGED <<notes, sysdate, clock, proc>>

FindCall ==
    \E name \in {Al, Bo} :
        /\ out' = [op |-> "find", name |-> name, result |-> AddressBook_find(data, name)]
        /\ UNCHANGED <<data, notes, sysdate, clock, proc>>

FromDictCall ==
    \E doc \in Documents :
        /\ AddressBook_from_dict(doc).ok
        /\ data' = AddressBook_from_dict(doc).v
        /\ out' = [op |-> "from_dict", doc |-> doc]
        /\ UNCHANGED <<notes, sysdate, clock, proc>>

FromListCall ==
    \E items \in ListDocuments :
        /\ AddressBook_from_list(items).ok
        /\ data' = AddressBook_from_list(items).v
        /\ out' = [op |-> "from_list", items |-> items, before |-> data]
        /\ UNCHANGED <<notes, sysdate, clock, proc>>

GetUpcomingBirthdaysCall ==
    \E days \in DaysInputs :
        /\ out' = [op |-> "get_upcoming_birthdays", days |-> days,
                   result |-> AddressBook_get_upcoming_birthdays(data, days, sysdate)]
        /\ UNCHANGED <<data, notes, sysdate, clock, proc>>

\* the startup choice between from_dict and from_list applied to a loaded value
StartupLoadCall ==
    \E value \in LoadedValues :
        /\ LoadContacts(data, value).ok
        /\ data' = LoadContacts(data, value).v
        /\ out' = [op |-> "load", value |-> value, before |-> data]
        /\ UNCHANGED <<notes, sysdate, clock, proc>>

NextBook ==
    \/ AddRecordCall
    \/ FindCall
    \/ FromDictCall
    \/ FromListCall
    \/ StartupLoadCall
    \/ GetUpcomingBirthdaysCall
    \/ RoundTripCall

SpecBook == InitBook /\ [][NextBook]_vars

(***************************************************************************)
(* Specification Spec: the contacts document is loaded, then the contact   *)
(* command functions are called in any order                               *)
(***************************************************************************)
\* main: contacts.from_dict(contacts_data) or contacts.from_list(contacts_data)
Init ==
    /\ \/ \E doc \in StartDocuments :
             AddressBook_from_dict(doc).ok /\ data = AddressBook_from_dict(doc).v
       \/ \E items \in StartLists :
             AddressBook_from_list(items).ok /\ data = AddressBook_from_list(items).v
    /\ notes = <<>>
    /\ sysdate = SessionDay
    /\ clock = 0
    /\ proc = NoProcess
    /\ out = [op |-> "init"]

\* the effect of a contact command function on the state
Called(op, args, r) ==
    /\ data' = r.book
    /\ out' = [op |-> op, args |-> args, ret |-> r.ret]
    /\ UNCHANGED <<notes, sysdate, clock, proc>>

AddContact ==
    \E args \in AddArgs :
        /\ Len(args) >= 2 /\ AddressBook_find(data, args[1]) # None =>
              Len(AddressBook_find(data, args[1])[1].phones) < MaxPhones
        /\ Called("add", args, add_contact(args, data))

ChangeContact == \E args \in ChangeArgs : Called("change", args, change_contact(args, data))

ShowPhone == \E args \in NameArgs : Called("phone", args, show_phone(args, data))

ShowAll == Called("all", <<>>, show_all(<<>>, data))

AddBirthday ==
    \E args \in AddBirthdayArgs : Called("add-birthday", args, add_birthday(args, data))

ShowBirthday == \E args \in NameArgs : Called("show-birthday", args, show_birthday(args, data))

Birthdays ==
    \E args \in BirthdaysArgs : Called("birthdays", args, birthdays(args, data, sysdate))

AddEmail == \E args \in AddEmailArgs : Called("add-email", args, add_email(args, data))

AddAddress == \E args \in AddAddressArgs : Called("add-address", args, add_address(args, data))

DeleteContact ==
    \E args \in NameArgs : Called("delete-contact", args, delete_contact(args, data))

SearchContacts ==
    \E args \in SearchArgs : Called("search-contacts", args, search_contacts(args, data))

Next ==
    \/ AddContact
    \/ ChangeContact
    \/ ShowPhone
    \/ ShowAll
    \/ AddBirthday
    \/ ShowBirthday
    \/ Birthdays
    \/ AddEmail
    \/ AddAddress
    \/ DeleteContact
    \/ SearchContacts

Spec == Init /\ [][Next]_vars

(***************************************************************************)
(* Specification SpecNotes: a notebook that starts empty, the Notebook     *)
(* and Note operations and the add-note command applied to it, and the     *)
(* clock advancing between calls                                           *)
(***************************************************************************)
InitNotes ==
    /\ data = <<>>
    /\ notes = <<>>
    /\ sysdate = SessionDay
    /\ clock = 0
    /\ proc = NoProcess
    /\ out = [op |-> "init"]

\* the effect of a notebook operation on the state
NoteCalled(op, title, content, r) ==
    /\ notes' = r.book
    /\ out' = [op |-> op, title |-> title, content |-> content, ret |-> r.ret]
    /\ UNCHANGED <<data, sysdate, clock, proc>>

NotebookAddNote ==
    \E title \in NoteTitles, content \in NoteContents, tags \in NoteTagInputs :
        NoteCalled("add_note", title, content,
                   Notebook_add_note(notes, title, content, tags, clock))

NotebookEditNote ==
    \E title \in NoteTitles, content \in NoteContents :
        NoteCalled("edit_note", title, content,
                   Notebook_edit_note(notes, title, content, clock))

NotebookDeleteNote ==
    \E title \in NoteTitles :
        NoteCalled("delete_note", title, None, Notebook_delete_note(notes, title))

\* notebook.get_note(title).add_tag(tag) on a note that is present
NoteAddTag ==
    \E i \in 1..Len(notes) :
        NoteCalled("add_tag", notes[i].key, None,
                   Returned([notes EXCEPT ![i].val = Note_add_tag(@, NoteTag, clock)], None))

\* notebook.get_note(title).remove_tag(tag) on a note that is present
NoteRemoveTag ==
    \E i \in 1..Len(notes) :
        NoteCalled("remove_tag", notes[i].key, None,
                   Returned([notes EXCEPT ![i].val = Note_remove_tag(@, NoteTag, clock)], None))

AddNoteCommand ==
    \E args \in NoteAddArgs :
        /\ notes' = add_note(args, notes, clock).book
        /\ out' = [op |-> "add-note", args |-> args, ret |-> add_note(args, notes, clock).ret]
        /\ UNCHANGED <<data, sysdate, clock, proc>>

\* time passes between two calls
Tick ==
    /\ clock < MaxClock
    /\ clock' = clock + 1
    /\ out' = [op |-> "tick"]
    /\ UNCHANGED <<data, notes, sysdate, proc>>

\* notes.from_dict(notes.to_dict()): the notebook is written and read back
NotesRoundTripCall ==
    /\ notes' = Notebook_from_dict(Notebook_to_dict(notes), clock)
    /\ out' = [op |-> "roundtrip"]
    /\ UNCHANGED <<data, sysdate, clock, proc>>

NextNotes ==
    \/ NotebookAddNote
    \/ NotebookEditNote
    \/ NotebookDeleteNote
    \/ NoteAddTag
    \/ NoteRemoveTag
    \/ AddNoteCommand
    \/ NotesRoundTripCall
    \/ Tick

SpecNotes == InitNotes /\ [][NextNotes]_vars

(***************************************************************************)
(* Specification SpecCommands: both collections start empty and every      *)
(* command handler is called with argument lists of the required length,   *)
(* shorter and longer                                                      *)
(***************************************************************************)
InitCommands ==
    /\ data = <<>>
    /\ notes = <<>>
    /\ sysdate = SessionDay
    /\ clock = 0
    /\ proc = NoProcess
    /\ out = [op |-> "init"]

\* result = handler(args, contacts)
ContactCommandCall ==
    \E c \in ContactCalls :
        /\ c.cmd = "add" /\ Len(c.args) >= 2 /\ AddressBook_find(data, c.args[1]) # None =>
              Len(AddressBook_find(data, c.args[1])[1].phones) < MaxPhones
        /\ Called(c.cmd, c.args, ContactHandler(c.cmd, c.args, data, sysdate))

\* result = handler(args, notes)
NoteCommandCall ==
    \E c \in NoteCalls :
        /\ notes' = NoteHandler(c.cmd, c.args, notes, clock).book
        /\ out' = [op |-> c.cmd, args |-> c.args,
                   ret |-> NoteHandler(c.cmd, c.args, notes, clock).ret]
        /\ UNCHANGED <<data, sysdate, clock, proc>>

NextCommands == ContactCommandCall \/ NoteCommandCall

SpecCommands == InitCommands /\ [][NextCommands]_vars

(***************************************************************************)
(* Specification SpecMain: the process running main(), from its start to   *)
(* its end.  register_contact_commands reads Command.Contacts.SEARCH, which *)
(* the enum does not define, so main() raises before its loop is entered    *)
(***************************************************************************)
InitMain ==
    /\ data = <<>>
    /\ notes = <<>>
    /\ sysdate = SessionDay
    /\ clock \in 0..1
    /\ out = [op |-> "init"]
    /\ \E cf \in ContactsFiles, nf \in NotesFiles, lines \in StdinInputs :
          proc = [pc |-> "start", contacts_file |-> cf, notes_file |-> nf,
                  contacts_data |-> EmptyMapping, notes_data |-> EmptyMapping,
                  at_load |-> <<cf, nf>>, reads |-> 0, writes |-> 0,
                  stdin |-> lines, why |-> "running"]

\* contacts_data = load_data(contacts_path, default={}) and
\* notes_data = load_data(notes_path, default={})
MainLoadData ==
    /\ proc.pc = "start"
    /\ LET c == load_data(proc.contacts_file, EmptyMapping)
           n == load_data(proc.notes_file, EmptyMapping)
       IN  proc' = [proc EXCEPT !.pc = "loaded",
                                !.contacts_file = c.file, !.notes_file = n.file,
                                !.contacts_data = c.value, !.notes_data = n.value,
                                !.at_load = <<c.file, n.file>>,
                                !.reads = @ + 1]
    /\ out' = [op |-> "load_data"]
    /\ UNCHANGED <<data, notes, sysdate, clock>>

\* the collections are filled from the loaded values
MainInitCollections ==
    /\ proc.pc = "loaded"
    /\ LET loaded == LoadContacts(data, proc.contacts_data)
       IN  /\ loaded.ok
           /\ data' = loaded.v
    /\ notes' = IF proc.notes_data.shape = "dict"
                THEN Notebook_from_dict(proc.notes_data.doc, clock)
                ELSE notes
    /\ proc' = [proc EXCEPT !.pc = "ready"]
    /\ out' = [op |-> "from_storage"]
    /\ UNCHANGED <<sysdate, clock>>

\* atexit.register(persist) and signal.signal(..., handle_signal)
MainRegisterExit ==
    /\ proc.pc = "ready"
    /\ proc' = [proc EXCEPT !.pc = "hooked"]
    /\ out' = [op |-> "atexit.register"]
    /\ UNCHANGED <<data, notes, sysdate, clock>>

\* register_contact_commands(COMMANDS) raises AttributeError at
\* Command.Contacts.SEARCH; the exception leaves main()
MainRegisterCommands ==
    /\ proc.pc = "hooked"
    /\ proc' = [proc EXCEPT !.pc = "unwinding", !.why = "AttributeError"]
    /\ out' = [op |-> "register_contact_commands"]
    /\ UNCHANGED <<data, notes, sysdate, clock>>

\* handle_signal: persist() and then SystemExit(0)
MainSignal ==
    /\ proc.pc = "hooked"
    /\ proc' = [persist(proc, data, notes) EXCEPT !.pc = "unwinding", !.why = "signal"]
    /\ out' = [op |-> "handle_signal"]
    /\ UNCHANGED <<data, notes, sysdate, clock>>

\* the interpreter runs the registered persist() and the process ends
MainAtExit ==
    /\ proc.pc = "unwinding"
    /\ proc' = [persist(proc, data, notes) EXCEPT !.pc = "exited"]
    /\ out' = [op |-> "atexit"]
    /\ UNCHANGED <<data, notes, sysdate, clock>>

NextMain ==
    \/ MainLoadData
    \/ MainInitCollections
    \/ MainRegisterExit
    \/ MainRegisterCommands
    \/ MainSignal
    \/ MainAtExit

SpecMain == InitMain /\ [][NextMain]_vars

(***************************************************************************)
(* Claims on the birthday computation (SpecDate)                           *)
(***************************************************************************)
\* C5: the next occurrence of a stored birthday is never before today:
\* days_to_birthday is never negative, every birthday is within the 366-day
\* window of get_upcoming_birthdays (its delta is in 0..366), and the date the
\* book reports is the next occurrence the record computes.
C5_NextOccurrenceNotBeforeToday ==
    /\ (out.op = "days_to_birthday" /\ out.birthday # None) =>
          /\ out.result # None
          /\ out.result[1] >= 0
          /\ out.result[1] = AddressBook_delta(out.birthday[1], sysdate)
    /\ out.op = "get_upcoming_birthdays" =>
          \A i \in 1..Len(data) :
              data[i].val.birthday # None =>
                 /\ DictGet(out.result, data[i].val.name) =
                       Some(FormatDate(Record_next_birthday(data[i].val.birthday[1], sysdate)))
                 /\ ~DateLess(ParseDate(DictGet(out.result, data[i].val.name)[1])[1], sysdate)

\* C5 witness: a 29 February birthday asked for on 1 March of a non-leap year:
\* the next occurrence is 29 February of the following (leap) year, 365 days on
C5_Witness ==
    /\ out.op = "days_to_birthday"
    /\ out.birthday = Some(Date(2000, 2, 29))
    /\ sysdate = Date(2023, 3, 1)
    /\ out.result = Some(365)

\* the candidate the algorithm describes for a 29 February birthday
Feb29Candidate(y) == IF IsLeap(y) THEN Date(y, 2, 29) ELSE Date(y, 2, 28)

\* C6: for a birthday on 29 February the candidate is 28 February of the
\* substituted year when that year is not a leap year (the current year, or the
\* following one when the current-year candidate is strictly before today);
\* 29.02.2000 asked for on 28.02.2023 is 0 days away.
C6_Feb29FallsBackToFeb28 ==
    LET expected == IF DateLess(Feb29Candidate(sysdate.y), sysdate)
                    THEN Feb29Candidate(sysdate.y + 1)
                    ELSE Feb29Candidate(sysdate.y)
    IN  /\ (out.op = "days_to_birthday" /\ out.birthday = Some(Date(2000, 2, 29))) =>
              /\ out.result = Some(DaysBetween(expected, sysdate))
              /\ sysdate = Date(2023, 2, 28) => out.result = Some(0)
        /\ (out.op = "get_upcoming_birthdays"
               /\ DictGet(data, Al) # None
               /\ DictGet(data, Al)[1].birthday = Some(Date(2000, 2, 29))) =>
              DictGet(out.result, Al) = Some(FormatDate(expected))

\* C6 witness: 29.02.2000 asked for on 28.02.2023 gives 0
C6_Witness ==
    /\ out.op = "days_to_birthday"
    /\ out.birthday = Some(Date(2000, 2, 29))
    /\ sysdate = Date(2023, 2, 28)
    /\ out.result = Some(0)

(***************************************************************************)
(* Claims on the Record methods (SpecRecord)                               *)
(***************************************************************************)
\* C10 as stated: a successful edit_phone(old, new) puts new itself in the place
\* of the first entry equal to old; length and the other entries are kept.
C10_EditPhoneStoresNew ==
    [][(out'.op = "edit_phone" /\ out'.ok) =>
          LET before == data[out'.at].val.phones
              after  == data'[out'.at].val.phones
              p      == Record_find_phone(data[out'.at].val, out'.old_phone)
          IN  /\ Len(after) = Len(before)
              /\ after[p] = out'.new_phone
              /\ \A j \in 1..Len(before) : j # p => after[j] = before[j]]_vars

\* C10 amended: a successful edit_phone(old, new) puts new, with leading and
\* trailing whitespace removed, in the place of the first entry equal to old;
\* the list keeps its length and every other entry its value and position.
C10_EditPhoneInPlace ==
    [][(out'.op = "edit_phone" /\ out'.ok) =>
          LET before == data[out'.at].val.phones
              after  == data'[out'.at].val.phones
              p      == Record_find_phone(data[out'.at].val, out'.old_phone)
          IN  /\ Len(after) = Len(before)
              /\ p \in 1..Len(before)
              /\ before[p] = out'.old_phone
              /\ \A j \in 1..(p - 1) : before[j] # out'.old_phone
              /\ after[p] = Strip(out'.new_phone)
              /\ \A j \in 1..Len(before) : j # p => after[j] = before[j]]_vars

\* C10 witness: ['111', '222'] after edit_phone('111', ' 333 ') is ['333', '222']
C10_Witness ==
    /\ out.op = "edit_phone"
    /\ out.ok
    /\ out.old_phone = <<"1", "1", "1">>
    /\ out.new_phone = <<" ", "3", "3", "3", " ">>
    /\ data[out.at].val.phones = << <<"3", "3", "3">>, <<"2", "2", "2">> >>

(***************************************************************************)
(* Claims on the AddressBook methods (SpecBook)                            *)
(***************************************************************************)
\* C4: after add_record(record), find(record.name) is exactly the given record
\* (nothing of a record previously under that name survives), the number of keys
\* is unchanged on replacement and one more on insertion, and the entries under
\* all other keys are unchanged.
C4_AddRecordReplacesWhole ==
    [][out'.op = "add_record" =>
          LET record == out'.record
          IN  /\ AddressBook_find(data', record.name) = Some(record)
              /\ Len(data') = Len(data) + (IF DictHas(data, record.name) THEN 0 ELSE 1)
              /\ Keys(data') = Keys(data) \cup {record.name}
              /\ \A k \in Keys(data) \ {record.name} :
                    AddressBook_find(data', k) = AddressBook_find(data, k)]_vars

\* C4 witness: a bare record replaced the full record stored under "Al" while
\* another contact is stored
C4_Witness ==
    /\ out.op = "add_record"
    /\ out.replaced
    /\ out.record = BareRecord(Al)
    /\ AddressBook_find(data, Al) = Some(BareRecord(Al))
    /\ AddressBook_find(data, Bo) = Some(FullRecord(Bo))

\* the next occurrence of a record's birthday is d days away, 0 <= d <= w
InWindow(record, w) ==
    /\ record.birthday # None
    /\ DaysBetween(Record_next_birthday(record.birthday[1], sysdate), sysdate) \in 0..w

\* C7: the keys of get_upcoming_birthdays(days) are exactly the names of the
\* records with a birthday whose next occurrence is 0..max(days, 0) days away,
\* each mapped to the formatted next occurrence of such a record; a negative days
\* gives the result of 0 and an omitted days the result of 7.
C7_UpcomingWindow ==
    out.op = "get_upcoming_birthdays" =>
        LET w == IF out.days = None THEN 7
                 ELSE IF out.days[1] < 0 THEN 0 ELSE out.days[1]
        IN  /\ Keys(out.result) =
                  {data[i].val.name : i \in {j \in 1..Len(data) : InWindow(data[j].val, w)}}
            /\ \A n \in Keys(out.result) :
                  \E i \in 1..Len(data) :
                      /\ data[i].val.name = n
                      /\ InWindow(data[i].val, w)
                      /\ DictGet(out.result, n) =
                            Some(FormatDate(Record_next_birthday(data[i].val.birthday[1], sysdate)))
            /\ (out.days # None /\ out.days[1] < 0) =>
                  out.result = AddressBook_get_upcoming_birthdays(data, Some(0), sysdate)
            /\ out.days = None =>
                  out.result = AddressBook_get_upcoming_birthdays(data, Some(7), sysdate)

\* C7 witness: get_upcoming_birthdays(-5) on 28.02.2023 returns the contact born
\* on 29 February (0 days away) and not the one whose birthday is 7 days away
C7_Witness ==
    /\ out.op = "get_upcoming_birthdays"
    /\ out.days = Some(-5)
    /\ AddressBook_find(data, Al) = Some(FullRecord(Al))
    /\ AddressBook_find(data, Bo) = Some(LeapRecord(Bo))
    /\ out.result = << Entry(Bo, <<"2", "8", ".", "0", "2", ".", "2", "0", "2", "3">>) >>

\* C8: from_dict(to_dict()) into a fresh AddressBook gives the same keys and
\* records equal in name, phones, birthday, email and address, so that its
\* to_dict() equals the original's.
C8_RoundTripLossless ==
    out.op = "roundtrip" =>
        /\ out.loaded.ok
        /\ out.loaded.v = data
        /\ AddressBook_to_dict(out.loaded.v) = out.doc

(***************************************************************************)
(* Claims on the contact commands (Spec)                                   *)
(***************************************************************************)
\* C1: after loading a contacts document and any sequence of contact
\* commands, every entry of the address book is stored under a key equal to
\* the name of the record it holds.
C1_KeyEqualsName ==
    \A i \in 1..Len(data) : data[i].key = data[i].val.name

\* C3: delete-contact with exactly one argument removes the record stored
\* under that name and reports the deletion, or reports 'not found' and leaves
\* the book unchanged when no record is stored under it; every other record is
\* untouched.
C3_DeleteRemovesByKey ==
    [][(out'.op = "delete-contact" /\ Len(out'.args) = 1) =>
          LET name == out'.args[1]
          IN  IF DictHas(data, name)
              THEN /\ ~DictHas(data', name)
                   /\ \A n \in Keys(data) \ {name} : DictGet(data', n) = DictGet(data, n)
                   /\ Keys(data') = Keys(data) \ {name}
                   /\ out'.ret.text = "Contact {name} deleted."
              ELSE /\ data' = data
                   /\ out'.ret.text = "Contact not found."]_vars

\* the query search_contacts builds from its arguments, lower-cased
C9_Query == Lower(Strip(JoinSpace(out.args)))

\* the records search_contacts returned, in the order returned
C9_Returned ==
    IF out.ret.text = "{contacts}"
    THEN [k \in 1..Len(out.ret.arg) |-> out.ret.arg[k].record]
    ELSE <<>>

\* the records of the book, in iteration order
C9_Records == [i \in 1..Len(data) |-> data[i].val]

\* a match on name, email or address, each lower-cased
C9_TextMatch(r) ==
    \/ Contains(C9_Query, Lower(r.name))
    \/ r.email # None /\ Contains(C9_Query, Lower(r.email[1]))
    \/ r.address # None /\ Contains(C9_Query, Lower(r.address[1]))

\* a match on a phone value as stored
C9_PhoneMatchExact(r) == \E k \in 1..Len(r.phones) : Contains(C9_Query, r.phones[k])

\* a match on a lower-cased phone value
C9_PhoneMatchLower(r) == \E k \in 1..Len(r.phones) : Contains(C9_Query, Lower(r.phones[k]))

\* C9 as stated: search returns, in iteration order and once each, exactly the
\* records whose lower-cased name, email or address contains the lower-cased
\* query, or one of whose phone values, compared case-sensitively, contains it.
C9_SearchPhonesCaseSensitive ==
    (out.op = "search-contacts" /\ out.args # <<>>) =>
        C9_Returned = SelectSeq(C9_Records,
                                LAMBDA r : C9_TextMatch(r) \/ C9_PhoneMatchExact(r))

\* C9 (amended): search returns, in iteration order and once each, exactly the
\* records whose lower-cased name, email, address or one of whose lower-cased
\* phone values contains the lower-cased query; with no such record it returns
\* the 'no contacts matched' message.
C9_SearchAllFieldsLowerCased ==
    (out.op = "search-contacts" /\ out.args # <<>>) =>
        /\ C9_Returned = SelectSeq(C9_Records,
                                   LAMBDA r : C9_TextMatch(r) \/ C9_PhoneMatchLower(r))
        /\ out.ret.text \in {"{contacts}", "No contacts matched '{query}'."}
        /\ out.ret.text = "{contacts}" <=> C9_Returned # <<>>

\* a search for "ab" returned a record because of its phone "AB1", next to a
\* record it did not return
C9_Witness ==
    /\ out.op = "search-contacts"
    /\ out.args = << <<"a", "b">> >>
    /\ Len(data) = 2
    /\ Len(C9_Returned) = 1
    /\ C9_PhoneMatchLower(C9_Returned[1])
    /\ ~C9_PhoneMatchExact(C9_Returned[1])
    /\ ~C9_TextMatch(C9_Returned[1])

(***************************************************************************)
(* Claims on the notebook (SpecNotes)                                      *)
(***************************************************************************)
\* the title and content an add_note call or add-note command was given
C2_IsAdd == out'.op = "add_note" \/ (out'.op = "add-note" /\ Len(out'.args) >= 2)

C2_Title == IF out'.op = "add_note" THEN out'.title ELSE out'.args[1]

C2_Content == IF out'.op = "add_note" THEN out'.content ELSE JoinSpace(Tail(out'.args))

\* C2: add_note with a title already present returns the 'already exists'
\* message and leaves the notebook unchanged (same titles; content, tags,
\* created_at and updated_at of the existing note as before); with a title not
\* yet present it inserts exactly one new note under that title.
C2_AddNoteDuplicateIsNoOp ==
    [][C2_IsAdd =>
          IF DictHas(notes, C2_Title)
          THEN /\ notes' = notes
               /\ out'.ret = Msg("Note with title '{title}' already exists.", <<C2_Title>>)
          ELSE /\ Len(notes') = Len(notes) + 1
               /\ Keys(notes') = Keys(notes) \cup {C2_Title}
               /\ \A t \in Keys(notes) : DictGet(notes', t) = DictGet(notes, t)
               /\ DictGet(notes', C2_Title)[1].title = C2_Title
               /\ DictGet(notes', C2_Title)[1].content = C2_Content
               /\ DictGet(notes', C2_Title)[1].created_at = clock
               /\ out'.ret = Msg("Note '{title}' added successfully.", <<C2_Title>>)]_vars

\* add_note was refused for a title whose note holds another content, tags, and
\* timestamps older than the call
C2_Witness ==
    /\ out.op = "add_note"
    /\ out.ret.text = "Note with title '{title}' already exists."
    /\ DictHas(notes, out.title)
    /\ DictGet(notes, out.title)[1].content # out.content
    /\ DictGet(notes, out.title)[1].tags # <<>>
    /\ DictGet(notes, out.title)[1].updated_at < clock
    /\ Len(notes) = 2

(***************************************************************************)
(* Claims on failing phone edits (SpecRecord)                              *)
(***************************************************************************)
\* no phone entry of the record equals old, or new is empty after trimming
C11_MustFail(rec, old_phone, new_phone) ==
    \/ \A k \in 1..Len(rec.phones) : rec.phones[k] # old_phone
    \/ \A k \in 1..Len(new_phone) : new_phone[k] = " "

\* C11: edit_phone(old, new) fails when no phone entry equals old and when new
\* is empty after trimming, and the phone list is then exactly as before; through
\* the change command the failure comes back as a message string and the address
\* book is unchanged.
C11_FailedEditChangesNothing ==
    [][/\ (out'.op = "edit_phone"
             /\ C11_MustFail(data[out'.at].val, out'.old_phone, out'.new_phone)) =>
              /\ ~out'.ok
              /\ data' = data
       /\ (out'.op = "change" /\ Len(out'.args) = 3 /\ DictHas(data, out'.args[1])
             /\ C11_MustFail(DictGet(data, out'.args[1])[1], out'.args[2], out'.args[3])) =>
              /\ data' = data
              /\ out'.ret.text \in {"Phone number not found", "Phone cannot be empty"}]_vars

\* change with old phone '111' present and a blank new phone returned the
\* validation message and '111' is still the first of two phones
C11_Witness ==
    /\ out.op = "change"
    /\ out.args = <<Al, <<"1", "1", "1">>, <<" ">> >>
    /\ out.ret.text = "Phone cannot be empty"
    /\ DictGet(data, Al)[1].phones = << <<"1", "1", "1">>, <<"2", "2", "2">> >>

(***************************************************************************)
(* Claims on editing and deleting notes (SpecNotes)                        *)
(***************************************************************************)
\* the titles of a notebook in iteration order
C12_Titles(notebook) == [i \in 1..Len(notebook) |-> notebook[i].key]

\* C12: edit_note and delete_note on a title that is not a key return the 'not
\* found' message and leave the notebook unchanged; edit_note on a present title
\* replaces only that note's content (title, tags, created_at and every other
\* note unchanged); delete_note on a present title removes that key and no other.
C12_EditDeleteByTitle ==
    [][/\ (out'.op \in {"edit_note", "delete_note"} /\ ~DictHas(notes, out'.title)) =>
              /\ notes' = notes
              /\ out'.ret = Msg("Note '{title}' not found.", <<out'.title>>)
       /\ (out'.op = "edit_note" /\ DictHas(notes, out'.title)) =>
              LET old == DictGet(notes, out'.title)[1]
                  new == DictGet(notes', out'.title)[1]
              IN  /\ C12_Titles(notes') = C12_Titles(notes)
                  /\ \A t \in Keys(notes) \ {out'.title} :
                        DictGet(notes', t) = DictGet(notes, t)
                  /\ new.content = out'.content
                  /\ new.title = old.title
                  /\ new.tags = old.tags
                  /\ new.created_at = old.created_at
                  /\ out'.ret = Msg("Note '{title}' updated successfully.", <<out'.title>>)
       /\ (out'.op = "delete_note" /\ DictHas(notes, out'.title)) =>
              /\ Keys(notes') = Keys(notes) \ {out'.title}
              /\ Len(notes') = Len(notes) - 1
              /\ \A t \in Keys(notes') : DictGet(notes', t) = DictGet(notes, t)
              /\ out'.ret = Msg("Note '{title}' deleted successfully.", <<out'.title>>)]_vars

\* edit_note replaced the content of a tagged note created earlier, next to
\* another note
C12_Witness ==
    /\ out.op = "edit_note"
    /\ out.ret.text = "Note '{title}' updated successfully."
    /\ Len(notes) = 2
    /\ DictGet(notes, out.title)[1].content = out.content
    /\ DictGet(notes, out.title)[1].tags # <<>>
    /\ DictGet(notes, out.title)[1].created_at < DictGet(notes, out.title)[1].updated_at

(***************************************************************************)
(* Claims on the command functions (SpecCommands)                          *)
(***************************************************************************)
\* the number of arguments each command requires
C13_Required ==
    [c \in {"add", "change", "phone", "show-birthday", "delete-contact", "delete-note",
            "search-note", "add-birthday", "add-email"} |->
        CASE c \in {"add", "add-birthday", "add-email"} -> 2
          [] c = "change" -> 3
          [] OTHER -> 1]

\* the literal usage string of each of these commands
C13_Usage ==
    [c \in DOMAIN C13_Required |->
        CASE c = "add"            -> "Usage: add [name] [phone number] with 10 digits"
          [] c = "change"         -> "Usage: change [name] [old phone] [new phone]"
          [] c = "phone"          -> "Usage: phone <name> <phone>"
          [] c = "show-birthday"  -> "Usage: show-birthday [name]"
          [] c = "delete-contact" -> "Usage: delete-contact [name]"
          [] c = "add-birthday"   -> "Usage: add-birthday [name] [date in DD.MM.YYYY format]"
          [] c = "add-email"      -> "Usage: add-email [name] [email]"
          [] c = "delete-note"    ->
                "Error: Please provide the note title.\nUsage: delete-note <title>"
          [] c = "search-note"    ->
                "Error: Please provide a search keyword.\nUsage: search-note <keyword>"]

\* C13: a command function called with a number of arguments different from
\* the one its command requires returns its literal usage string and leaves both
\* collections unchanged.
C13_WrongCountGivesUsage ==
    [][(out'.op \in DOMAIN C13_Required /\ Len(out'.args) # C13_Required[out'.op]) =>
          /\ out'.ret.text = C13_Usage[out'.op]
          /\ data' = data
          /\ notes' = notes]_vars

(***************************************************************************)
(* Claims on the life of a contact record (Spec)                           *)
(***************************************************************************)
\* the record carries the field the creating command supplied
C14_CarriesField(record, op, args) ==
    CASE op = "add"          -> record.phones = <<args[2]>>
      [] op = "add-birthday" -> record.birthday # None
      [] op = "add-email"    -> record.email = Some(Strip(args[2]))
      [] op = "add-address"  -> record.address = Some(Strip(JoinSpace(Tail(args))))
      [] OTHER -> FALSE

\* C14: a record appears only through add, add-birthday, add-email or
\* add-address naming an absent contact, and the book then holds a record under
\* that name carrying the supplied field; change, phone and show-birthday on an
\* absent name return 'Contact not found.' and create nothing; a record in the
\* book stays in it across every command other than a delete of its name.
C14_RecordLifecycle ==
    [][/\ \A n \in Keys(data') \ Keys(data) :
              /\ out'.op \in {"add", "add-birthday", "add-email", "add-address"}
              /\ out'.args[1] = n
              /\ DictGet(data', n)[1].name = n
              /\ C14_CarriesField(DictGet(data', n)[1], out'.op, out'.args)
       /\ (out'.op \in {"change", "phone", "show-birthday"}
             /\ Len(out'.args) = (IF out'.op = "change" THEN 3 ELSE 1)
             /\ ~DictHas(data, out'.args[1])) =>
              /\ out'.ret.text = "Contact not found."
              /\ data' = data
       /\ \A n \in Keys(data) :
              DictHas(data', n) \/ (out'.op = "delete-contact" /\ out'.args = <<n>>)]_vars

(***************************************************************************)
(* Claims on error handling of the command functions (SpecCommands)        *)
(***************************************************************************)
\* C15: no command function lets an error escape: whatever the record or
\* collection operation does (validation failure, lookup miss, missing collection
\* method, non-numeric days), the call returns a string.
C15_NoErrorEscapes ==
    out.op \in ContactCommands \cup NoteCommands =>
        /\ DOMAIN out.ret = {"text", "arg"}
        /\ (out.op = "delete-contact" /\ Len(out.args) = 1) =>
              out.ret.text = "An error occurred: {e}"
        /\ (out.op = "birthdays" /\ out.args = <<TokX>>) =>
              out.ret.text = "invalid literal for int() with base 10"
        /\ (out.op = "add-birthday" /\ out.args = <<Al, Tok3102>>) =>
              out.ret.text = "Birthday must be in DD.MM.YYYY format"

\* delete-contact met the missing collection method and returned the generic
\* error string, with the record still in the book
C15_Witness ==
    /\ out.op = "delete-contact"
    /\ out.args = <<Al>>
    /\ out.ret = Msg("An error occurred: {e}",
                     <<"'AddressBook' object has no attribute 'delete'">>)
    /\ DictHas(data, Al)

(***************************************************************************)
(* Claims on the process (SpecMain)                                        *)
(***************************************************************************)
\* the input lines that are owed a reply: the non-blank lines before the first
\* close
RECURSIVE C16_Owed(_)
C16_Owed(lines) ==
    IF lines = <<>> \/ Head(lines) = "close" THEN <<>>
    ELSE IF Head(lines) = "  " THEN C16_Owed(Tail(lines))
    ELSE <<Head(lines)>> \o C16_Owed(Tail(lines))

\* C16: every non-blank input line other than close is answered and the next
\* line is read: the process stops reading only at close or at the end of input
\* (or on a signal); it never ends on a raised exception while a line that is
\* owed a reply is waiting.
C16_EveryLineAnswered ==
    (proc.pc = "exited" /\ proc.why # "signal") =>
        /\ proc.why \in {"close", "eof", "AttributeError"}
        /\ proc.why = "AttributeError" => C16_Owed(proc.stdin) = <<>>

C18_Changes(t, old) ==
    /\ out'.op \in {"edit_note", "add_tag", "remove_tag"}
    /\ out'.title = t
    /\ out'.op = "add_tag" => \A k \in 1..Len(old.tags) : old.tags[k] # NoteTag
    /\ out'.op = "remove_tag" => \E k \in 1..Len(old.tags) : old.tags[k] = NoteTag

\* C18: across every note operation and a to_dict/from_dict round trip a note
\* keeps its created_at; updated_at becomes the clock value on update_content,
\* on an add_tag that adds and on a remove_tag that removes, and is unchanged by
\* everything else; so updated_at is never before created_at and never decreases.
C18_Timestamps ==
    [][\A j \in 1..Len(notes') :
          LET t   == notes'[j].key
              new == notes'[j].val
          IN  IF \E i \in 1..Len(notes) : notes[i].key = t
              THEN \A i \in 1..Len(notes) : notes[i].key = t =>
                      /\ new.created_at = notes[i].val.created_at
                      /\ IF C18_Changes(t, notes[i].val)
                         THEN new.updated_at = clock
                         ELSE new = notes[i].val
                      /\ new.updated_at >= notes[i].val.updated_at
                      /\ new.updated_at >= new.created_at
              ELSE new.created_at = clock /\ new.updated_at = clock]_vars

\* a note created at 0 and edited at 1 has gone through a round trip at 2
C18_Witness ==
    /\ out.op = "roundtrip"
    /\ clock = 2
    /\ \E i \in 1..Len(notes) :
          notes[i].val.created_at = 0 /\ notes[i].val.updated_at = 1

\* C19: a note's tags never hold the same value twice.
C19_TagsHaveNoDuplicates ==
    \A i \in 1..Len(notes) :
        \A j, k \in 1..Len(notes[i].val.tags) :
            j # k => notes[i].val.tags[j] # notes[i].val.tags[k]

(***************************************************************************)
(* Claims on loading a list-shaped document (SpecBook)                     *)
(***************************************************************************)
\* the name of the record parsed from an item
C20_Name(item) == Record_from_dict(item).v.name

\* the positions whose name occurs at no earlier position, in list order
C20_Firsts(items) ==
    SelectSeq([k \in 1..Len(items) |-> k],
              LAMBDA k : \A j \in 1..(k - 1) : C20_Name(items[j]) # C20_Name(items[k]))

\* the last position carrying the name of position k
C20_Last(items, k) ==
    CHOOSE j \in k..Len(items) :
        /\ C20_Name(items[j]) = C20_Name(items[k])
        /\ \A i \in (j + 1)..Len(items) : C20_Name(items[i]) # C20_Name(items[k])

\* one entry per name, at the place of its first item, holding its last item
C20_Expected(items) ==
    [n \in 1..Len(C20_Firsts(items)) |->
        Entry(C20_Name(items[C20_Firsts(items)[n]]),
              Record_from_dict(items[C20_Last(items, C20_Firsts(items)[n])]).v)]

\* the mapping name -> record dict of a list of items
C20_Mapping(items) == [k \in 1..Len(items) |-> Entry(C20_Name(items[k]), items[k])]

\* C20: from_list(items) discards the previous contents and yields what
\* inserting each parsed record in list order with add_record yields: one entry
\* per name, the later item winning; for pairwise distinct names this is from_dict
\* of the mapping name -> record dict.  Startup uses from_dict for a mapping and
\* from_list for a list, and the book is a keyed mapping afterwards.
C20_FromListRebuildsMapping ==
    /\ out.op = "from_list" =>
          /\ data = C20_Expected(out.items)
          /\ Len(C20_Firsts(out.items)) = Len(out.items) =>
                data = AddressBook_from_dict(C20_Mapping(out.items)).v
    /\ out.op = "load" =>
          /\ out.value.shape = "dict" => data = AddressBook_from_dict(out.value.doc).v
          /\ out.value.shape = "list" => data = C20_Expected(out.value.doc)
          /\ \A i, j \in 1..Len(data) : i # j => data[i].key # data[j].key

\* from_list of the list naming Al twice replaced a book that held other
\* contents: Al's entry comes first and holds the later item
C20_Witness ==
    /\ out.op = "from_list"
    /\ Len(out.items) = 3
    /\ Len(out.before) = 2 /\ out.before # data
    /\ Len(data) = 2
    /\ data[1] = Entry(Al, FullRecord(Al))


(***************************************************************************)
(* Claims on commands that end in a validation error (Spec)                *)
(***************************************************************************)
\* the messages of the ValueErrors raised by the field and record classes
C21_ValidationErrors ==
    { "Birthday must be in DD.MM.YYYY format", "Phone cannot be empty",
      "Phone number not found", "Name cannot be empty" }

\* C21: a contact command that returns the message of a validation error
\* leaves the address book exactly as it was before the command; add-birthday
\* with an invalid date adds no record for an absent name and leaves the
\* birthday of an existing contact as it was.
C21_ValidationErrorChangesNothing ==
    [][out'.ret.text \in C21_ValidationErrors => data' = data]_vars


(***************************************************************************)
(* Claims on the dispatch of commands to the two collections (SpecCommands)*)
(***************************************************************************)
\* the commands that only report
C22_Queries ==
    {"phone", "all", "show-birthday", "birthdays", "search-contacts",
     "search-note", "show-notes"}

C23_Loaded(before, after, value) ==
    /\ before.kind = "invalid" => after = before /\ value = EmptyMapping
    /\ before.kind = "missing" => after = FileJson("dict", <<>>) /\ value = EmptyMapping

\* C23: load_data returns the default for an unparsable document without
\* writing it and creates a missing document holding the empty mapping; a
\* document that was unparsable at startup still has its original content
\* when the session, having run no mutating command, has ended.
C23_UnparsableDocumentKept ==
    [][/\ out'.op = "load_data" =>
             /\ C23_Loaded(proc.contacts_file, proc'.contacts_file, proc'.contacts_data)
             /\ C23_Loaded(proc.notes_file, proc'.notes_file, proc'.notes_data)
       /\ proc'.pc = "exited" =>
             /\ proc'.at_load[1].kind = "invalid" => proc'.contacts_file.kind = "invalid"
             /\ proc'.at_load[2].kind = "invalid" => proc'.notes_file.kind = "invalid"]_vars

====
